---- MODULE Spec2Model ----
(***************************************************************************)
(* dump-db-to-parquet: main (main.rs) computes a time window from the wall *)
(* clock, fetch_posts (database.rs) collects the rows of the window from   *)
(* the firehoseposts table, write_to_parquet (parquet_writer.rs) creates   *)
(* the output file.  One process, strictly sequential; the state is the    *)
(* position in main, the locals, the store and the directory of output     *)
(* files.  Time is counted in ticks, TicksPerDay ticks to a day.           *)
(***************************************************************************)
EXTENDS Integers, Sequences, FiniteSets

\* ---------------------------------------------------------------- bounds
TicksPerDay == 2     \* resolution of the clock: ticks per chrono::Duration::days(1)
MaxClock    == 4     \* the wall clock stops advancing here
MaxRows     == 2     \* rows in the firehoseposts table
MaxDefects  == 1     \* rows of the table holding a NULL or an empty string
MaxRuns     == 2     \* invocations of the program (cron)
GroupSize   == 1     \* the row-group size N the row-group claims speak of

\* ---------------------------------------------------------------- schema
\* The 17 columns of the SELECT, in order (database.rs:30), and of the
\* struct FirehosePost (database.rs:7-25).
Columns == << "uri", "created_at", "text", "embed", "langs", "entities",
              "facets", "labels", "reply", "reply_parent", "reply_root",
              "tags", "py_type", "cid", "author", "indexed_at",
              "synctimestamp" >>

\* Fields of type Option<String>: a NULL decodes to None.
OptionalCols == { "langs", "entities", "facets", "labels", "reply",
                  "reply_parent", "reply_root", "tags" }

\* Fields of type String or NaiveDateTime: row.get fails on NULL.
RequiredCols == { Columns[i] : i \in 1..Len(Columns) } \ OptionalCols

\* ---------------------------------------------------------------- inputs
Times == 0..MaxClock

\* The columns whose value the explored stores vary: the first required
\* column, an optional column, the last required column.
VariedCols == { "uri", "langs", "synctimestamp" }

\* A stored row: its indexed_at tick, the columns holding NULL, the columns
\* holding the empty string ''.  Explored rows have at most one such column.
CleanRows == { [t |-> t, null |-> {}, empty |-> {}] : t \in Times }
NullRows  == { [t |-> t, null |-> {c}, empty |-> {}] : t \in Times, c \in VariedCols }
EmptyRows == { [t |-> t, null |-> {}, empty |-> {c}] : t \in Times, c \in {"uri"} }
NoTimeRows == { [t |-> 0, null |-> {"indexed_at"}, empty |-> {}] }
RowSet == CleanRows \cup NullRows \cup EmptyRows \cup NoTimeRows

Stores ==
    { s \in UNION { [1..n -> RowSet] : n \in 0..MaxRows } :
        Cardinality({ i \in DOMAIN s : s[i] \notin CleanRows }) <= MaxDefects }

\* ---------------------------------------------------------------- files
Dates == 0..(MaxClock \div TicksPerDay)
FileNames == { <<d, "parquet">> : d \in Dates }

\* Content of a path: absent, or a file at one of the stages of being written.
NoFile    == [stage |-> "absent", groups |-> << >>]
EmptyFile == [stage |-> "empty",  groups |-> << >>]

VARIABLES
    clock,       \* Utc::now()
    run,         \* number of the current invocation
    pc,          \* position of the current invocation
    yesterday,   \* main.rs:9
    today,       \* main.rs:10
    filename,    \* main.rs:11
    store,       \* table firehoseposts of firehose.db
    start,       \* fetch_posts parameter
    end,         \* fetch_posts parameter
    cursor,      \* posts_iter: index of the next table row to visit
    posts,       \* the Vec<FirehosePost> being collected / returned
    fs,          \* working directory: file name -> content
    fetchRes,    \* what fetch_posts returned: "none" (not yet), "ok", "err"
    writeRes,    \* what write_to_parquet returned
    failed,      \* the step whose Result was Err, "none" if none
    ran,         \* steps executed by this invocation
    exit,        \* "running", "ok" (exit 0), "err" (non-zero exit)
    fsAtStart    \* fs when this invocation began

vars == << clock, run, pc, yesterday, today, filename, store, start, end,
           cursor, posts, fs, fetchRes, writeRes, failed, ran, exit, fsAtStart >>

\* ---------------------------------------------------------------- helpers
\* yesterday.format("%Y-%m-%d"): the calendar date of an instant.
FormatDate(t) == t \div TicksPerDay

\* format!("{}.parquet", ...)
FileNameOf(t) == << FormatDate(t), "parquet" >>

\* WHERE indexed_at >= ? AND indexed_at < ?   (NULL and '' compare false)
Selected(row, s, e) ==
    /\ "indexed_at" \notin (row.null \cup row.empty)
    /\ row.t >= s
    /\ row.t < e

\* DecodeError with every field read as Option<String>: a NULL is accepted.
DecodeErrorLenient(row) == 0

\* The closure of query_map: row.get(i)? for i = 0..16 in order.  The result
\* is the 1-based index of the first column whose get fails, 0 if none does.
DecodeError(row) ==
    LET bad == { i \in 1..Len(Columns) :
                    Columns[i] \in RequiredCols /\ Columns[i] \in row.null }
    IN  IF bad = {} THEN 0
        ELSE CHOOSE i \in bad : \A j \in bad : i <= j

\* The FirehosePost built from table row number i.
Decode(i, row) ==
    [ src   |-> i,
      indexed_at |-> row.t,
      none  |-> row.null \cap OptionalCols,
      blank |-> row.empty ]

\* Index of the first selected row at or after position c, 0 if none.
NextSelected(c) ==
    LET idx == { i \in c..Len(store) : Selected(store[i], start, end) }
    IN  IF idx = {} THEN 0
        ELSE CHOOSE i \in idx : \A j \in idx : i <= j

\* Question with the Err dropped (let _ = ...): the run carries on.
QuestionSwallow(s, ok, next) ==
    /\ ran' = ran \cup {s}
    /\ pc' = next
    /\ failed' = IF ok THEN failed ELSE s
    /\ UNCHANGED exit

\* The ? operator on the Result of step s: Ok continues at next, Err returns
\* from the function and, through the ? of main, from main.
Question(s, ok, next) ==
    /\ ran' = ran \cup {s}
    /\ IF ok
       THEN /\ pc' = next
            /\ UNCHANGED << failed, exit >>
       ELSE /\ pc' = "exit"
            /\ failed' = s
            /\ exit' = "err"

\* ---------------------------------------------------------------- initial state
\* Before the first invocation: any table content, an empty output directory.
InitCommon ==
    /\ store \in Stores
    /\ run = 1
    /\ start = 0 /\ end = 0
    /\ cursor = 1
    /\ posts = << >>
    /\ fs = [f \in FileNames |-> NoFile]
    /\ fsAtStart = fs
    /\ fetchRes = "none" /\ writeRes = "none"
    /\ failed = "none"
    /\ ran = {}
    /\ exit = "running"

Init ==
    /\ InitCommon
    /\ clock = TicksPerDay
    /\ pc = "main"
    /\ yesterday = 0 /\ today = 0
    /\ filename = FileNameOf(0)

\* ---------------------------------------------------------------- the clock
\* Wall-clock time passes.  Only the two reads of main observe it, so it is
\* advanced only in front of them.
Tick ==
    /\ pc \in {"main", "today"}
    /\ clock < MaxClock
    /\ clock' = clock + 1
    /\ UNCHANGED << run, pc, yesterday, today, filename, store, start, end,
                    cursor, posts, fs, fetchRes, writeRes, failed, ran, exit,
                    fsAtStart >>

\* ---------------------------------------------------------------- main
\* main.rs:9   let yesterday = Utc::now() - chrono::Duration::days(1);
MainYesterday ==
    /\ pc = "main"
    /\ yesterday' = clock - TicksPerDay
    /\ pc' = "today"
    /\ UNCHANGED << clock, run, today, filename, store, start, end, cursor,
                    posts, fs, fetchRes, writeRes, failed, ran, exit, fsAtStart >>

\* MainToday with the file named after today instead of yesterday.
MainTodayNamedToday ==
    /\ pc = "today"
    /\ today' = clock
    /\ filename' = FileNameOf(today')
    /\ pc' = "open"
    /\ UNCHANGED << clock, run, yesterday, store, start, end, cursor, posts,
                    fs, fetchRes, writeRes, failed, ran, exit, fsAtStart >>

\* MainToday with the output file created before the rows are fetched.
MainTodayEagerCreate ==
    /\ pc = "today"
    /\ today' = clock
    /\ filename' = FileNameOf(yesterday)
    /\ fs' = [fs EXCEPT ![filename'] = EmptyFile]
    /\ pc' = "open"
    /\ UNCHANGED << clock, run, yesterday, store, start, end, cursor, posts,
                    fetchRes, writeRes, failed, ran, exit, fsAtStart >>

\* main.rs:10-11   let today = Utc::now();
\*                 let filename = format!("{}.parquet", yesterday.format("%Y-%m-%d"));
MainToday ==
    /\ pc = "today"
    /\ today' = clock
    /\ filename' = FileNameOf(yesterday)
    /\ pc' = "open"
    /\ UNCHANGED << clock, run, yesterday, store, start, end, cursor, posts,
                    fs, fetchRes, writeRes, failed, ran, exit, fsAtStart >>

\* ---------------------------------------------------------------- fetch_posts
\* main.rs:13 calls fetch_posts("firehose.db", yesterday, today);
\* database.rs:28   let conn = Connection::open(db_path)?;
ConnectionOpen ==
    /\ pc = "open"
    /\ start' = yesterday
    /\ end' = today
    /\ \E ok \in BOOLEAN :
         /\ Question("open", ok, "prepare")
         /\ fetchRes' = IF ok THEN fetchRes ELSE "err"
    /\ UNCHANGED << clock, run, yesterday, today, filename, store, cursor,
                    posts, fs, writeRes, fsAtStart >>

\* database.rs:29-31   let mut stmt = conn.prepare("SELECT ...")?;
Prepare ==
    /\ pc = "prepare"
    /\ \E ok \in BOOLEAN :
         /\ Question("prepare", ok, "query")
         /\ fetchRes' = IF ok THEN fetchRes ELSE "err"
    /\ UNCHANGED << clock, run, yesterday, today, filename, store, start, end,
                    cursor, posts, fs, writeRes, fsAtStart >>

\* database.rs:32,52   let posts_iter = stmt.query_map(params![start, end], ...)?;
QueryMap ==
    /\ pc = "query"
    /\ \E ok \in BOOLEAN :
         /\ Question("query", ok, "collect")
         /\ fetchRes' = IF ok THEN fetchRes ELSE "err"
    /\ cursor' = 1
    /\ posts' = << >>
    /\ UNCHANGED << clock, run, yesterday, today, filename, store, start, end,
                    fs, writeRes, fsAtStart >>

\* database.rs:54   posts_iter.collect(): one pull of the iterator.  The
\* iterator steps to the next selected row and runs the closure of
\* database.rs:32-52 on it; collect stops at the first Err.  When the rows
\* are exhausted fetch_posts returns Ok(posts).
CollectNext ==
    /\ pc = "collect"
    /\ LET i == NextSelected(cursor) IN
         IF i = 0
         THEN /\ fetchRes' = "ok"
              /\ pc' = "parse"
              /\ UNCHANGED << cursor, posts, failed, ran, exit >>
         ELSE /\ cursor' = i + 1
              /\ Question("decode", DecodeError(store[i]) = 0, "collect")
              /\ IF DecodeError(store[i]) = 0
                 THEN /\ posts' = Append(posts, Decode(i, store[i]))
                      /\ UNCHANGED fetchRes
                 ELSE /\ fetchRes' = "err"
                      /\ UNCHANGED posts
    /\ UNCHANGED << clock, run, yesterday, today, filename, store, start, end,
                    fs, writeRes, fsAtStart >>

\* ---------------------------------------------------------------- write_to_parquet
\* main.rs:14 calls write_to_parquet(&filename, &posts);
\* parquet_writer.rs:13-33   let schema = parse_message_type("...")?;
ParseSchema ==
    /\ pc = "parse"
    /\ \E ok \in BOOLEAN :
         /\ Question("parse", ok, "create")
         /\ writeRes' = IF ok THEN writeRes ELSE "err"
    /\ UNCHANGED << clock, run, yesterday, today, filename, store, start, end,
                    cursor, posts, fs, fetchRes, fsAtStart >>

\* parquet_writer.rs:35   let file = File::create(filename)?;
\* File::create makes the file, or truncates it when it exists.
FileCreate ==
    /\ pc = "create"
    /\ \E ok \in BOOLEAN :
         /\ Question("create", ok, "writer")
         /\ writeRes' = IF ok THEN writeRes ELSE "err"
         /\ fs' = IF ok THEN [fs EXCEPT ![filename] = EmptyFile] ELSE fs
    /\ UNCHANGED << clock, run, yesterday, today, filename, store, start, end,
                    cursor, posts, fetchRes, fsAtStart >>

\* parquet_writer.rs:36   let mut writer = SerializedFileWriter::new(file, schema, props)?;
\* The constructor writes the 4-byte magic.
WriterNew ==
    /\ pc = "writer"
    /\ \E ok \in BOOLEAN :
         /\ Question("writer", ok, "close")
         /\ writeRes' = IF ok THEN writeRes ELSE "err"
         /\ fs' = IF ok THEN [fs EXCEPT ![filename].stage = "magic"] ELSE fs
    /\ UNCHANGED << clock, run, yesterday, today, filename, store, start, end,
                    cursor, posts, fetchRes, fsAtStart >>

\* parquet_writer.rs:38-40   // Write posts to Parquet (logic to be implemented)
\*                           writer.close()?;
\* No row group is written.  close writes the footer; when it fails the
\* footer is missing or cut short, and the file stays on disk.
WriterClose ==
    /\ pc = "close"
    /\ \E ok \in BOOLEAN :
         /\ Question("close", ok, "return")
         /\ IF ok
            THEN /\ writeRes' = "ok"
                 /\ fs' = [fs EXCEPT ![filename].stage = "complete"]
            ELSE /\ writeRes' = "err"
                 /\ \E st \in {"magic", "partial"} :
                      fs' = [fs EXCEPT ![filename].stage = st]
    /\ UNCHANGED << clock, run, yesterday, today, filename, store, start, end,
                    cursor, posts, fetchRes, fsAtStart >>

\* main.rs:16   Ok(())
MainReturn ==
    /\ pc = "return"
    /\ pc' = "exit"
    /\ exit' = "ok"
    /\ UNCHANGED << clock, run, yesterday, today, filename, store, start, end,
                    cursor, posts, fs, fetchRes, writeRes, failed, ran, fsAtStart >>

\* The program is invoked again (the next cron run): fresh locals, the same
\* store and directory.
NextRun ==
    /\ pc = "exit"
    /\ run < MaxRuns
    /\ run' = run + 1
    /\ pc' = "main"
    /\ yesterday' = 0 /\ today' = 0
    /\ filename' = FileNameOf(0)
    /\ start' = 0 /\ end' = 0
    /\ cursor' = 1
    /\ posts' = << >>
    /\ fetchRes' = "none" /\ writeRes' = "none"
    /\ failed' = "none"
    /\ ran' = {}
    /\ exit' = "running"
    /\ fsAtStart' = fs
    /\ UNCHANGED << clock, store, fs >>

\* ---------------------------------------------------------------- specifications
Pipeline ==
    \/ ConnectionOpen
    \/ Prepare
    \/ QueryMap
    \/ CollectNext
    \/ ParseSchema
    \/ FileCreate
    \/ WriterNew
    \/ WriterClose
    \/ MainReturn

Next ==
    \/ Tick
    \/ MainYesterday
    \/ MainToday
    \/ Pipeline
    \/ NextRun

Spec == Init /\ [][Next]_vars

\* fetch_posts and write_to_parquet driven as main.rs:13-14 drives them, but
\* with a window the caller supplies: any start and end.
InitWindow ==
    /\ InitCommon
    /\ clock = MaxClock
    /\ pc = "open"
    /\ yesterday \in Times
    /\ today \in Times
    /\ filename = FileNameOf(yesterday)

SpecWindow == InitWindow /\ [][Pipeline]_vars

\* ---------------------------------------------------------------- properties
\* Table rows the window of the current call selects.
WindowRows == { i \in 1..Len(store) : Selected(store[i], start, end) }

\* The rows of a file: its row groups one after the other.
RECURSIVE Flatten(_)
Flatten(gs) == IF gs = << >> THEN << >> ELSE Head(gs) \o Flatten(Tail(gs))

\* How often table row i occurs in the output file.
Occurrences(i) ==
    Cardinality({ k \in 1..Len(Flatten(fs[filename].groups)) :
                    Flatten(fs[filename].groups)[k] = i })

WriteSteps == { "parse", "create", "writer", "close" }
FetchSteps == { "open", "prepare", "query", "decode" }

\* The steps of a run in program order.
StepOrder == << "open", "prepare", "query", "decode", "parse", "create",
                "writer", "close" >>

StepsAfter(s) ==
    { StepOrder[j] : j \in { k \in 1..Len(StepOrder) :
         \E i \in 1..Len(StepOrder) : StepOrder[i] = s /\ i < k } }

\* C1: after a successful run over a window start < end, the output file
\* holds every table row with start <= indexed_at < end exactly once and no
\* other row.
C1_WindowRowsExported ==
    (pc = "exit" /\ exit = "ok" /\ start < end) =>
        \A i \in 1..Len(store) :
            Occurrences(i) = IF i \in WindowRows THEN 1 ELSE 0

C3_DestinationExists ==
    ( /\ pc = "exit"
      /\ "create" \in ran
      /\ fsAtStart[filename].stage = "complete" )
    => (failed = "create" /\ fs[filename] = fsAtStart[filename])

\* C4: a run that fails constructing or closing the writer leaves no file,
\* or a file cut to length zero, at the destination.
C4_NoPartialFile ==
    (pc = "exit" /\ failed \in {"writer", "close"}) =>
        fs[filename].stage \in {"absent", "empty"}

\* C5: called with a window that is not start < end, fetch_posts does not
\* return successfully and no file is written.
C5_InvalidWindow ==
    ("open" \in ran /\ ~(start < end)) =>
        (fetchRes # "ok" /\ fs[filename].stage = "absent")

\* C6: a successful run over GroupSize + 1 records writes exactly 2 row
\* groups of at most GroupSize records each, holding the records once, in
\* input order.
C6_RowGroups ==
    (pc = "exit" /\ exit = "ok" /\ Len(posts) = GroupSize + 1) =>
        /\ Len(fs[filename].groups) = 2
        /\ \A g \in 1..Len(fs[filename].groups) :
              Len(fs[filename].groups[g]) <= GroupSize
        /\ Flatten(fs[filename].groups) = [k \in 1..Len(posts) |-> posts[k].src]

\* C7: the records pulled from the store and not yet written to the output
\* file never number more than GroupSize.
C7_BoundedBuffer ==
    (exit = "running" /\ "query" \in ran) =>
        Len(posts) <= GroupSize +
            (IF "create" \in ran THEN Len(Flatten(fs[filename].groups)) ELSE 0)

\* C8: a failed step ends the run at once with a non-zero exit, no later
\* step runs, and the run exits 0 only when no step failed and both
\* fetch_posts and write_to_parquet returned Ok.
C8_ErrorsPropagate ==
    /\ failed # "none" =>
          /\ pc = "exit" /\ exit = "err"
          /\ ran \cap StepsAfter(failed) = {}
          /\ failed \in FetchSteps => (fetchRes = "err" /\ writeRes = "none")
          /\ failed \in WriteSteps => (fetchRes = "ok" /\ writeRes = "err")
    /\ pc = "exit" => (exit = "err" <=> failed # "none")
    /\ exit = "ok" =>
          /\ pc = "exit" /\ fetchRes = "ok" /\ writeRes = "ok"
          /\ (StepOrder[1] \in ran /\ WriteSteps \subseteq ran)

\* The creation of the file fails after rows were decoded.
C8_Witness ==
    /\ pc = "exit" /\ exit = "err" /\ failed = "create"
    /\ "decode" \in ran

\* C9 (as claimed): the window given to the row source starts at 00:00 of
\* the day before the current one and the file is named after that start.
C9_WindowFromMidnight ==
    "open" \in ran =>
        /\ start = (FormatDate(today) - 1) * TicksPerDay
        /\ end = today
        /\ filename = << start \div TicksPerDay, "parquet" >>

\* C9 (amended): the window given to the row source is [t1 - 1 day, t2) for
\* the two successive clock readings t1 <= t2 of main, and the file name is
\* the date of the window start followed by the extension.
C9_WindowAndName ==
    /\ []( "open" \in ran =>
             /\ start = yesterday /\ end = today
             /\ start + TicksPerDay <= end /\ end <= clock
             /\ filename = << start \div TicksPerDay, "parquet" >> )
    /\ [][ (pc = "main" /\ pc' = "today") => yesterday' = clock - TicksPerDay ]_vars
    /\ [][ (pc = "today" /\ pc' = "open") =>
              (today' = clock /\ yesterday' = yesterday) ]_vars

\* A successful run whose window starts in the middle of a day and is longer
\* than a day.
C9_Witness ==
    /\ pc = "exit" /\ exit = "ok"
    /\ start % TicksPerDay # 0
    /\ end > start + TicksPerDay

\* C10: as long as fetch_posts has not returned Ok the directory is as the
\* run found it, and no step of write_to_parquet has run.
C10_NoFileBeforeFetch ==
    fetchRes # "ok" => (fs = fsAtStart /\ ran \cap WriteSteps = {})

\* The store cannot be opened in a run that finds the file of an earlier run.
C10_Witness ==
    /\ pc = "exit" /\ failed = "open" /\ fetchRes = "err"
    /\ fs[filename].stage = "complete"

====
